---- MODULE Spec2Model ----
(***************************************************************************)
(* Model of scripts/claude_pexpect.py: main() spawns a command under a     *)
(* pseudo-terminal with pexpect, relays what pexpect logs to stdout and,   *)
(* when COUNCIL_CAPTURE_PATH is set, to a capture file through Tee, sends  *)
(* COUNCIL_PROMPT either as a trailing argument or as one input line,      *)
(* waits for EOF and returns the child's exit status.                      *)
(*                                                                         *)
(* Text is a sequence of units (a unit is a printable token or "\n"); a    *)
(* chunk is a non-empty text.  The file system persists across runs of the *)
(* script; everything else is per-process state.                           *)
(***************************************************************************)
EXTENDS Integers, Sequences, FiniteSets, TLC

\* ---------------------------------------------------------------- bounds
MaxArgs == 2        \* most Command tokens after the runner's own name
MaxOut  == 2        \* most units a child prints in one run
MaxRuns == 2        \* runs of the script in succession

\* ------------------------------------------------------------ input sets
Tokens   == {"claude", "--print", "-p"}
Prompts  == {"", "hello", "-p"}
Paths    == {"cap.txt"}
OutUnits == {"o"}
ExitCodes == {0, 7}

\* Python's None, for child.exitstatus and for "main returned no value".
None == -1

UsageMsg == "Usage: claude_pexpect.py <claude_cmd> [args...]"

SeqsUpTo(S, n) == UNION {[1..k -> S] : k \in 0..n}

Argvs == {<<"claude_pexpect.py">> \o c : c \in SeqsUpTo(Tokens, MaxArgs)}

VARIABLES
    run,            \* number of the current run of the script
    fs,             \* file system: path -> text on disk
    fileBefore,     \* fs as it was when the current run started
    argv,           \* sys.argv
    prompt,         \* os.environ COUNCIL_PROMPT
    capture_path,   \* os.environ COUNCIL_CAPTURE_PATH
    pc,             \* position in main
    cmd,            \* local cmd
    has_print,      \* local has_print
    capture_file,   \* "none" (None), "open", "closed"
    cbuf,           \* capture_file's unflushed buffer
    stdout,         \* sys.stdout: [buf |-> unflushed text, out |-> flushed text]
    stderr,         \* lines printed to sys.stderr
    child,          \* "none", "alive", "eof"
    spawned,        \* the (command, args) pairs handed to pexpect.spawn
    sent,           \* texts written to the child's input
    childOut,       \* text the child printed (read from the pty)
    childExit,      \* how the child ended: [kind, code]
    exitstatus,     \* child.exitstatus
    logData,        \* chunk being handed to child.logfile
    logNext,        \* where control returns after the log call
    teeIdx,         \* Tee.write loop: index into files (0: no call in progress)
    teeStep,        \* Tee.write loop body: "write" or "flush" comes next
    logged,         \* chunks handed to logfile.write
    recvStdout,     \* chunks sys.stdout.write received
    recvCap,        \* chunks capture_file.write received
    fault,          \* exception in flight or raised: "none","open","spawn","send","relay"
    ret,            \* main's return value
    events,         \* order of the externally visible steps of this run
    openCount,      \* times the capture file was opened in this run
    closeCount      \* times the capture file was closed in this run

vars == <<run, fs, fileBefore, argv, prompt, capture_path, pc, cmd, has_print,
          capture_file, cbuf, stdout, stderr, child, spawned, sent, childOut,
          childExit, exitstatus, logData, logNext, teeIdx, teeStep, logged,
          recvStdout, recvCap, fault, ret, events, openCount, closeCount>>

\* ---------------------------------------------------------------- helpers
RECURSIVE Flatten(_)
Flatten(chunks) ==
    IF chunks = <<>> THEN <<>> ELSE Head(chunks) \o Flatten(Tail(chunks))

Contains(s, x) == \E i \in 1..Len(s) : s[i] = x

\* sys.argv[1:]
ArgvTail(a) == SubSeq(a, 2, Len(a))

\* "--print" in cmd or "-p" in cmd
HasPrintLongOnly(c) == Contains(c, "--print")
HasPrint(c) == Contains(c, "--print") \/ Contains(c, "-p")

\* cmd after lines 14-21
BuildCmd(a, p) ==
    IF p # "" /\ HasPrint(ArgvTail(a)) THEN ArgvTail(a) \o <<p>> ELSE ArgvTail(a)

\* open(capture_path, "w", ...): the path's content is replaced by nothing
OpenAppend(f, path) == f
OpenTruncate(f, path) == [f EXCEPT ![path] = <<>>]

\* child.sendline(s) sends s + os.linesep
SendNoNewline(s) == <<s>>
SendLineText(s) == <<s, "\n">>

\* child.exitstatus or 0
ExitAlwaysZero(x) == 0
ExitOrZero(x) == IF x = None \/ x = 0 THEN 0 ELSE x

\* Tee(sys.stdout, capture_file).files, or the lone sys.stdout
LogFiles == IF capture_file = "none" THEN <<"stdout">> ELSE <<"stdout", "capture">>

PerRunInit ==
    /\ pc = "start"
    /\ cmd = <<>>
    /\ has_print = FALSE
    /\ capture_file = "none"
    /\ cbuf = <<>>
    /\ stdout = [buf |-> <<>>, out |-> <<>>]
    /\ stderr = <<>>
    /\ child = "none"
    /\ spawned = <<>>
    /\ sent = <<>>
    /\ childOut = <<>>
    /\ childExit = [kind |-> "none", code |-> None]
    /\ exitstatus = None
    /\ logData = <<>>
    /\ logNext = "none"
    /\ teeIdx = 0
    /\ teeStep = "write"
    /\ logged = <<>>
    /\ recvStdout = <<>>
    /\ recvCap = <<>>
    /\ fault = "none"
    /\ ret = None
    /\ events = <<>>
    /\ openCount = 0
    /\ closeCount = 0

Init ==
    /\ run = 1
    /\ fs = [p \in Paths |-> <<>>]
    /\ fileBefore = fs
    /\ argv \in Argvs
    /\ prompt \in Prompts
    /\ capture_path \in Paths \cup {""}
    /\ PerRunInit

\* -------------------------------------------------------- sinks and logging
\* f.write(data) for one sink: the data lands in the sink's buffer
WriteTo(f, data) ==
    IF f = "stdout"
    THEN /\ stdout' = [stdout EXCEPT !.buf = @ \o data]
         /\ recvStdout' = Append(recvStdout, data)
         /\ UNCHANGED <<cbuf, recvCap>>
    ELSE /\ cbuf' = cbuf \o data
         /\ recvCap' = Append(recvCap, data)
         /\ UNCHANGED <<stdout, recvStdout>>

\* f.flush() for one sink: the buffer reaches the terminal or the disk
FlushSkipped(f) == UNCHANGED <<stdout, cbuf, fs>>
FlushOf(f) ==
    IF f = "stdout"
    THEN /\ stdout' = [buf |-> <<>>, out |-> stdout.out \o stdout.buf]
         /\ UNCHANGED <<cbuf, fs>>
    ELSE /\ fs' = [fs EXCEPT ![capture_path] = @ \o cbuf]
         /\ cbuf' = <<>>
         /\ UNCHANGED stdout

\* pexpect's _log(s): the start of logfile.write(s)
BeginLog(data, next) ==
    /\ logData' = data
    /\ logNext' = next
    /\ logged' = Append(logged, data)
    /\ teeIdx' = 1
    /\ teeStep' = "write"
    /\ pc' = "log"

InTeeWrite == pc = "log" /\ teeIdx \in 1..Len(LogFiles)

\* ------------------------------------------------------------------ main
\* lines 10-12
UsageTruncates ==
    /\ pc = "start"
    /\ Len(argv) < 2
    /\ stderr' = Append(stderr, UsageMsg)
    /\ ret' = 2
    /\ pc' = "returned"
    /\ events' = Append(events, "usage")
    /\ fs' = IF capture_path = "" THEN fs ELSE OpenTruncate(fs, capture_path)
    /\ UNCHANGED <<run, fileBefore, argv, prompt, capture_path, cmd, has_print,
                   capture_file, cbuf, stdout, child, spawned, sent, childOut,
                   childExit, exitstatus, logData, logNext, teeIdx, teeStep,
                   logged, recvStdout, recvCap, fault, openCount, closeCount>>

UsageReturnsZero ==
    /\ pc = "start"
    /\ Len(argv) < 2
    /\ stderr' = Append(stderr, UsageMsg)
    /\ ret' = 0
    /\ pc' = "returned"
    /\ events' = Append(events, "usage")
    /\ UNCHANGED <<run, fs, fileBefore, argv, prompt, capture_path, cmd, has_print,
                   capture_file, cbuf, stdout, child, spawned, sent, childOut,
                   childExit, exitstatus, logData, logNext, teeIdx, teeStep,
                   logged, recvStdout, recvCap, fault, openCount, closeCount>>

UsageError ==
    /\ pc = "start"
    /\ Len(argv) < 2
    /\ stderr' = Append(stderr, UsageMsg)
    /\ ret' = 2
    /\ pc' = "returned"
    /\ events' = Append(events, "usage")
    /\ UNCHANGED <<run, fs, fileBefore, argv, prompt, capture_path, cmd, has_print,
                   capture_file, cbuf, stdout, child, spawned, sent, childOut,
                   childExit, exitstatus, logData, logNext, teeIdx, teeStep,
                   logged, recvStdout, recvCap, fault, openCount, closeCount>>

\* lines 14-25, open succeeding (or no capture path)
Prepare ==
    /\ pc = "start"
    /\ Len(argv) >= 2
    /\ cmd' = BuildCmd(argv, prompt)
    /\ has_print' = HasPrint(ArgvTail(argv))
    /\ IF capture_path # ""
       THEN /\ fs' = OpenTruncate(fs, capture_path)
            /\ capture_file' = "open"
            /\ openCount' = openCount + 1
            /\ events' = Append(events, "open")
       ELSE UNCHANGED <<fs, capture_file, openCount, events>>
    /\ pc' = "spawn"
    /\ UNCHANGED <<run, fileBefore, argv, prompt, capture_path, cbuf, stdout,
                   stderr, child, spawned, sent, childOut, childExit, exitstatus,
                   logData, logNext, teeIdx, teeStep, logged, recvStdout, recvCap,
                   fault, ret, closeCount>>

\* lines 14-25, open raising (unwritable path): before the try, nothing to close
OpenFails ==
    /\ pc = "start"
    /\ Len(argv) >= 2
    /\ capture_path # ""
    /\ cmd' = BuildCmd(argv, prompt)
    /\ has_print' = HasPrint(ArgvTail(argv))
    /\ fault' = "open"
    /\ pc' = "raised"
    /\ UNCHANGED <<run, fs, fileBefore, argv, prompt, capture_path, capture_file,
                   cbuf, stdout, stderr, child, spawned, sent, childOut, childExit,
                   exitstatus, logData, logNext, teeIdx, teeStep, logged,
                   recvStdout, recvCap, ret, events, openCount, closeCount>>

\* lines 28-45: spawn succeeds, child.logfile is set
SpawnOk ==
    /\ pc = "spawn"
    /\ spawned' = Append(spawned, <<Head(cmd), Tail(cmd)>>)
    /\ child' = "alive"
    /\ events' = Append(events, "spawn")
    /\ pc' = "send"
    /\ UNCHANGED <<run, fs, fileBefore, argv, prompt, capture_path, cmd, has_print,
                   capture_file, cbuf, stdout, stderr, sent, childOut, childExit,
                   exitstatus, logData, logNext, teeIdx, teeStep, logged,
                   recvStdout, recvCap, fault, ret, openCount, closeCount>>

\* line 28 raising: control goes to the finally block
SpawnFailsSwallowed ==
    /\ pc = "spawn"
    /\ spawned' = Append(spawned, <<Head(cmd), Tail(cmd)>>)
    /\ events' = Append(events, "spawn_failed")
    /\ ret' = 1
    /\ pc' = "finally"
    /\ UNCHANGED <<run, fs, fileBefore, argv, prompt, capture_path, cmd, has_print,
                   capture_file, cbuf, stdout, stderr, child, sent, childOut,
                   childExit, exitstatus, logData, logNext, teeIdx, teeStep,
                   logged, recvStdout, recvCap, fault, openCount, closeCount>>

SpawnFails ==
    /\ pc = "spawn"
    /\ spawned' = Append(spawned, <<Head(cmd), Tail(cmd)>>)
    /\ events' = Append(events, "spawn_failed")
    /\ fault' = "spawn"
    /\ pc' = "finally"
    /\ UNCHANGED <<run, fs, fileBefore, argv, prompt, capture_path, cmd, has_print,
                   capture_file, cbuf, stdout, stderr, child, sent, childOut,
                   childExit, exitstatus, logData, logNext, teeIdx, teeStep,
                   logged, recvStdout, recvCap, ret, openCount, closeCount>>

\* lines 47-48: child.sendline(prompt) logs the line, then writes it to the child
SendLine ==
    /\ pc = "send"
    /\ prompt # "" /\ ~has_print
    /\ BeginLog(SendLineText(prompt), "write_child")
    /\ UNCHANGED <<run, fs, fileBefore, argv, prompt, capture_path, cmd, has_print,
                   capture_file, cbuf, stdout, stderr, child, spawned, sent,
                   childOut, childExit, exitstatus, recvStdout, recvCap, fault,
                   ret, events, openCount, closeCount>>

\* line 47 false: straight to child.expect(pexpect.EOF)
SkipSend ==
    /\ pc = "send"
    /\ ~(prompt # "" /\ ~has_print)
    /\ events' = Append(events, "wait")
    /\ pc' = "expect"
    /\ UNCHANGED <<run, fs, fileBefore, argv, prompt, capture_path, cmd, has_print,
                   capture_file, cbuf, stdout, stderr, child, spawned, sent,
                   childOut, childExit, exitstatus, logData, logNext, teeIdx,
                   teeStep, logged, recvStdout, recvCap, fault, ret, openCount,
                   closeCount>>

\* line 48, after the log: os.write to the child's pty; then line 50 begins
WriteChild ==
    /\ pc = "write_child"
    /\ sent' = Append(sent, logData)
    /\ events' = events \o <<"send", "wait">>
    /\ pc' = "expect"
    /\ UNCHANGED <<run, fs, fileBefore, argv, prompt, capture_path, cmd, has_print,
                   capture_file, cbuf, stdout, stderr, child, spawned, childOut,
                   childExit, exitstatus, logData, logNext, teeIdx, teeStep,
                   logged, recvStdout, recvCap, fault, ret, openCount, closeCount>>

\* line 48, the write to the child raising (the child is already gone)
WriteChildFails ==
    /\ pc = "write_child"
    /\ fault' = "send"
    /\ pc' = "finally"
    /\ UNCHANGED <<run, fs, fileBefore, argv, prompt, capture_path, cmd, has_print,
                   capture_file, cbuf, stdout, stderr, child, spawned, sent,
                   childOut, childExit, exitstatus, logData, logNext, teeIdx,
                   teeStep, logged, recvStdout, recvCap, ret, events, openCount,
                   closeCount>>

\* lines 35-36: f.write(data) for files[teeIdx]
TeeWrite ==
    /\ InTeeWrite
    /\ teeStep = "write"
    /\ WriteTo(LogFiles[teeIdx], logData)
    /\ teeStep' = "flush"
    /\ UNCHANGED <<run, fs, fileBefore, argv, prompt, capture_path, pc, cmd,
                   has_print, capture_file, stderr, child, spawned, sent, childOut,
                   childExit, exitstatus, logData, logNext, teeIdx, logged, fault,
                   ret, events, openCount, closeCount>>

\* line 37: f.flush() for files[teeIdx], then the next file or the end of write
TeeFlush ==
    /\ InTeeWrite
    /\ teeStep = "flush"
    /\ FlushOf(LogFiles[teeIdx])
    /\ teeIdx' = teeIdx + 1
    /\ teeStep' = "write"
    /\ UNCHANGED <<run, fileBefore, argv, prompt, capture_path, pc, cmd,
                   has_print, capture_file, stderr, child, spawned, sent, childOut,
                   childExit, exitstatus, logData, logNext, logged, recvStdout,
                   recvCap, fault, ret, events, openCount, closeCount>>

\* lines 34-41: a sink's write or flush raising inside the log call
TeeFault ==
    /\ InTeeWrite
    /\ fault' = IF logNext = "write_child" THEN "send" ELSE "relay"
    /\ pc' = "finally"
    /\ UNCHANGED <<run, fs, fileBefore, argv, prompt, capture_path, cmd, has_print,
                   capture_file, cbuf, stdout, stderr, child, spawned, sent,
                   childOut, childExit, exitstatus, logData, logNext, teeIdx,
                   teeStep, logged, recvStdout, recvCap, ret, events, openCount,
                   closeCount>>

\* lines 39-41: write has returned; pexpect then calls logfile.flush()
LogReturn ==
    /\ pc = "log"
    /\ teeIdx = Len(LogFiles) + 1
    /\ stdout' = [buf |-> <<>>, out |-> stdout.out \o stdout.buf]
    /\ IF capture_file = "open"
       THEN /\ fs' = [fs EXCEPT ![capture_path] = @ \o cbuf]
            /\ cbuf' = <<>>
       ELSE UNCHANGED <<fs, cbuf>>
    /\ teeIdx' = 0
    /\ pc' = logNext
    /\ UNCHANGED <<run, fileBefore, argv, prompt, capture_path, cmd, has_print,
                   capture_file, stderr, child, spawned, sent, childOut, childExit,
                   exitstatus, logData, logNext, teeStep, logged, recvStdout,
                   recvCap, fault, ret, events, openCount, closeCount>>

\* line 50: the wait reads one more chunk of the child's output and logs it
ExpectRead ==
    /\ pc = "expect"
    /\ child = "alive"
    /\ Len(childOut) < MaxOut
    /\ \E n \in 1..(MaxOut - Len(childOut)) :
         \E chunk \in [1..n -> OutUnits] :
            /\ childOut' = childOut \o chunk
            /\ BeginLog(chunk, "expect")
    /\ UNCHANGED <<run, fs, fileBefore, argv, prompt, capture_path, cmd, has_print,
                   capture_file, cbuf, stdout, stderr, child, spawned, sent,
                   childExit, exitstatus, recvStdout, recvCap, fault, ret, events,
                   openCount, closeCount>>

\* line 50: the pty reaches EOF.  The child exited with a code or was killed by
\* a signal; pexpect polls it once without blocking, so an exit code is in
\* exitstatus only if the child could already be reaped.
ExpectEOF ==
    /\ pc = "expect"
    /\ child = "alive"
    /\ \E kind \in {"exit", "signal"}, code \in ExitCodes, reaped \in BOOLEAN :
         /\ kind = "signal" => (code = 0 /\ reaped)
         /\ childExit' = [kind |-> kind, code |-> IF kind = "exit" THEN code ELSE None]
         /\ exitstatus' = IF kind = "exit" /\ reaped THEN code ELSE None
    /\ child' = "eof"
    /\ events' = Append(events, "eof")
    /\ pc' = "return"
    /\ UNCHANGED <<run, fs, fileBefore, argv, prompt, capture_path, cmd, has_print,
                   capture_file, cbuf, stdout, stderr, spawned, sent, childOut,
                   logData, logNext, teeIdx, teeStep, logged, recvStdout, recvCap,
                   fault, ret, openCount, closeCount>>

\* line 50 raising (a read error, undecodable bytes from the child)
ExpectFault ==
    /\ pc = "expect"
    /\ fault' = "relay"
    /\ pc' = "finally"
    /\ UNCHANGED <<run, fs, fileBefore, argv, prompt, capture_path, cmd, has_print,
                   capture_file, cbuf, stdout, stderr, child, spawned, sent,
                   childOut, childExit, exitstatus, logData, logNext, teeIdx,
                   teeStep, logged, recvStdout, recvCap, ret, events, openCount,
                   closeCount>>

\* line 51: the return value is computed, then the finally block runs
Return ==
    /\ pc = "return"
    /\ ret' = ExitOrZero(exitstatus)
    /\ pc' = "finally"
    /\ UNCHANGED <<run, fs, fileBefore, argv, prompt, capture_path, cmd, has_print,
                   capture_file, cbuf, stdout, stderr, child, spawned, sent,
                   childOut, childExit, exitstatus, logData, logNext, teeIdx,
                   teeStep, logged, recvStdout, recvCap, fault, events, openCount,
                   closeCount>>

\* lines 52-54: close flushes what is buffered; then main returns or re-raises
FinallyCloseOnSuccessOnly ==
    /\ pc = "finally"
    /\ IF capture_file = "open" /\ fault = "none"
       THEN /\ fs' = [fs EXCEPT ![capture_path] = @ \o cbuf]
            /\ cbuf' = <<>>
            /\ capture_file' = "closed"
            /\ closeCount' = closeCount + 1
            /\ events' = Append(events, "close")
       ELSE UNCHANGED <<fs, cbuf, capture_file, closeCount, events>>
    /\ pc' = IF fault = "none" THEN "returned" ELSE "raised"
    /\ UNCHANGED <<run, fileBefore, argv, prompt, capture_path, cmd, has_print,
                   stdout, stderr, child, spawned, sent, childOut, childExit,
                   exitstatus, logData, logNext, teeIdx, teeStep, logged,
                   recvStdout, recvCap, fault, ret, openCount>>

Finally ==
    /\ pc = "finally"
    /\ IF capture_file # "none"
       THEN /\ fs' = [fs EXCEPT ![capture_path] = @ \o cbuf]
            /\ cbuf' = <<>>
            /\ capture_file' = "closed"
            /\ closeCount' = closeCount + 1
            /\ events' = Append(events, "close")
       ELSE UNCHANGED <<fs, cbuf, capture_file, closeCount, events>>
    /\ pc' = IF fault = "none" THEN "returned" ELSE "raised"
    /\ UNCHANGED <<run, fileBefore, argv, prompt, capture_path, cmd, has_print,
                   stdout, stderr, child, spawned, sent, childOut, childExit,
                   exitstatus, logData, logNext, teeIdx, teeStep, logged,
                   recvStdout, recvCap, fault, ret, openCount>>

\* line 58: raise SystemExit(main()) ends the process; its state is gone, the
\* file system stays
ProcessExit ==
    /\ pc \in {"returned", "raised"}
    /\ run < MaxRuns
    /\ pc' = "exited"
    /\ cmd' = <<>>
    /\ has_print' = FALSE
    /\ capture_file' = "none"
    /\ cbuf' = <<>>
    /\ stdout' = [buf |-> <<>>, out |-> <<>>]
    /\ stderr' = <<>>
    /\ child' = "none"
    /\ spawned' = <<>>
    /\ sent' = <<>>
    /\ childOut' = <<>>
    /\ childExit' = [kind |-> "none", code |-> None]
    /\ exitstatus' = None
    /\ logData' = <<>>
    /\ logNext' = "none"
    /\ teeIdx' = 0
    /\ teeStep' = "write"
    /\ logged' = <<>>
    /\ recvStdout' = <<>>
    /\ recvCap' = <<>>
    /\ fault' = "none"
    /\ ret' = None
    /\ events' = <<>>
    /\ openCount' = 0
    /\ closeCount' = 0
    /\ argv' = <<"claude_pexpect.py">>
    /\ prompt' = ""
    /\ capture_path' = ""
    /\ fileBefore' = fs
    /\ UNCHANGED <<run, fs>>

\* the script is run again, with its own arguments and environment
NewRun ==
    /\ pc = "exited"
    /\ run' = run + 1
    /\ argv' \in Argvs
    /\ prompt' \in Prompts
    /\ capture_path' \in Paths \cup {""}
    /\ pc' = "start"
    /\ UNCHANGED <<fs, fileBefore, cmd, has_print, capture_file, cbuf, stdout,
                   stderr, child, spawned, sent, childOut, childExit, exitstatus,
                   logData, logNext, teeIdx, teeStep, logged, recvStdout, recvCap,
                   fault, ret, events, openCount, closeCount>>

Next ==
    \/ UsageError
    \/ Prepare
    \/ OpenFails
    \/ SpawnOk
    \/ SpawnFails
    \/ SendLine
    \/ SkipSend
    \/ WriteChild
    \/ WriteChildFails
    \/ TeeWrite
    \/ TeeFlush
    \/ TeeFault
    \/ LogReturn
    \/ ExpectRead
    \/ ExpectEOF
    \/ ExpectFault
    \/ Return
    \/ Finally
    \/ ProcessExit
    \/ NewRun

Spec == Init /\ [][Next]_vars

\* ------------------------------------------------------------ properties
Flags == {"--print", "-p"}

\* the Command holds a print-mode flag token at some position
FlagGiven == \E i \in 2..Len(argv) : argv[i] \in Flags

\* the run has ended: main returned a value or let a fault out
MainEnded == pc \in {"returned", "raised"}

\* the full argument vector handed to the (only) spawn of this run
SpawnedArgv == <<spawned[1][1]>> \o spawned[1][2]

\* C1: in every run that opened the capture file, the file is closed exactly
\* once by the time main ends, on the normal path and on every fault path; it
\* is never closed more than once, and never closed without having been opened.
C1_ClosedExactlyOnce ==
    /\ closeCount <= openCount
    /\ openCount <= 1
    /\ (MainEnded /\ openCount = 1) => (closeCount = 1 /\ capture_file = "closed")
    /\ (MainEnded /\ openCount = 0) => (closeCount = 0 /\ capture_file = "none")

C1_Witness ==
    /\ pc = "raised"
    /\ fault = "relay"
    /\ openCount = 1
    /\ closeCount = 1

C3_CaptureEqualsChildOutput ==
    (pc = "returned" /\ child = "eof" /\ openCount = 1) =>
        /\ fs[capture_path] = childOut
        /\ capture_file = "closed"

\* C4: with a prompt and no print-mode flag, once the child is spawned the
\* command handed to spawn is the original argument list (prompt not appended);
\* by the time the wait for EOF starts exactly one line, the prompt followed by
\* a newline, has been sent, after the spawn and before the wait; before that
\* nothing has been sent.
C4_PromptSentAsOneLine ==
    (prompt # "" /\ ~FlagGiven /\ child # "none") =>
        /\ Len(spawned) = 1
        /\ SpawnedArgv = SubSeq(argv, 2, Len(argv))
        /\ IF Contains(events, "wait")
           THEN /\ sent = << <<prompt, "\n">> >>
                /\ \E i \in 1..Len(events) :
                      /\ events[i] = "spawn"
                      /\ SubSeq(events, i + 1, i + 2) = <<"send", "wait">>
                /\ Cardinality({i \in 1..Len(events) : events[i] = "send"}) = 1
           ELSE sent = <<>>

C4_Witness ==
    /\ prompt = "hello"
    /\ ~FlagGiven
    /\ pc = "returned"
    /\ child = "eof"
    /\ sent = << <<"hello", "\n">> >>

\* C5: with a prompt and a print-mode flag (--print or -p) anywhere in the
\* Command, the argument vector handed to spawn is the original arguments in
\* their order followed by the prompt as the last one, and nothing is ever
\* sent to the child's input.
C5_PromptAsFinalArgument ==
    (prompt # "" /\ FlagGiven) =>
        /\ sent = <<>>
        /\ ~Contains(events, "send")
        /\ spawned # <<>> =>
              /\ Len(spawned) = 1
              /\ Len(SpawnedArgv) = Len(argv)
              /\ SpawnedArgv[Len(SpawnedArgv)] = prompt
              /\ \A i \in 1..(Len(argv) - 1) : SpawnedArgv[i] = argv[i + 1]

C5_Witness ==
    /\ prompt = "hello"
    /\ argv = <<"claude_pexpect.py", "-p", "claude">>
    /\ pc = "returned"
    /\ child = "eof"
    /\ SpawnedArgv = <<"-p", "claude", "hello">>

\* C6: with no Command argument main returns exactly 2, the usage message is
\* the one line on the error stream, and no child is ever spawned.
C6_UsageError ==
    (Len(argv) < 2 /\ pc # "exited") =>
        /\ spawned = <<>>
        /\ child = "none"
        /\ pc \in {"start", "returned"}
        /\ pc = "returned" => (ret = 2 /\ stderr = <<UsageMsg>> /\ fault = "none")

C6_Witness ==
    /\ Len(argv) < 2
    /\ pc = "returned"
    /\ ret = 2

\* C7: when the spawn fails the fault leaves main as it is: main returns no
\* value, the spawn is tried once, no prompt line is sent, nothing is relayed,
\* and the capture file, if opened, is closed before the fault is out.
C7_SpawnFaultPropagates ==
    Contains(events, "spawn_failed") =>
        /\ pc \in {"finally", "raised"}
        /\ fault = "spawn"
        /\ ret = None
        /\ Len(spawned) = 1
        /\ child = "none"
        /\ sent = <<>>
        /\ logged = <<>>
        /\ stdout = [buf |-> <<>>, out |-> <<>>]
        /\ pc = "raised" => (capture_file # "open" /\ closeCount = openCount)

C7_Witness ==
    /\ pc = "raised"
    /\ fault = "spawn"
    /\ openCount = 1
    /\ closeCount = 1

\* C8: when a run that opened the capture file ends, the file holds only what
\* this run handed to the capture sink, whatever the file held before (the
\* previous run's capture, longer or shorter).
C8_CaptureTruncated ==
    (MainEnded /\ openCount = 1) => fs[capture_path] = Flatten(recvCap)

C8_Witness ==
    /\ run = 2
    /\ pc = "returned"
    /\ openCount = 1
    /\ fs[capture_path] # <<>>
    /\ Len(fs[capture_path]) < Len(fileBefore[capture_path])

\* C9: with the capture sink open, whenever no Tee.write call is under way
\* (none started, or the last one has returned) both sinks have received the
\* same sequence of chunks, namely every chunk handed to the relay, and both
\* are flushed: the terminal and the file hold all of it.
C9_TeeSinksAgree ==
    (capture_file = "open" /\ teeIdx \notin {1, 2}) =>
        /\ recvStdout = logged
        /\ recvCap = logged
        /\ stdout.buf = <<>>
        /\ cbuf = <<>>
        /\ stdout.out = Flatten(logged)
        /\ fs[capture_path] = Flatten(logged)

C9_Witness ==
    /\ capture_file = "open"
    /\ pc = "log"
    /\ teeIdx = 3
    /\ Len(logged) = 2
    /\ recvCap = logged

\* C10: a usage error touches nothing: the capture file is not opened and its
\* content is what it was, no prompt is delivered, even with both environment
\* values set; a run that gets past the usage check with a capture path has
\* truncated the file before it attempts the spawn, so a failed spawn leaves
\* the file empty.
C10_UsageErrorHasNoSideEffect ==
    /\ Len(argv) < 2 =>
          /\ fs = fileBefore
          /\ openCount = 0
          /\ capture_file = "none"
          /\ sent = <<>>
          /\ logged = <<>>
          /\ stdout = [buf |-> <<>>, out |-> <<>>]
    /\ (capture_path # "" /\ pc = "spawn") =>
          (events = <<"open">> /\ fs[capture_path] = <<>>)
    /\ (capture_path # "" /\ spawned # <<>>) => events[1] = "open"
    /\ (capture_path # "" /\ Contains(events, "spawn_failed")) =>
          fs[capture_path] = <<>>

C10_Witness ==
    /\ run = 2
    /\ Len(argv) < 2
    /\ pc = "returned"
    /\ capture_path # ""
    /\ prompt # ""
    /\ fileBefore[capture_path] # <<>>

====
